---- MODULE Spec2Model ----
(***************************************************************************)
(* A model of HARPIA_Analysis_Functions.py: load_TA, plot_spectrum,        *)
(* plot_bleach and extract_pump_values.  Each call is a short sequential   *)
(* program; the model gives it one action per statement (or statement      *)
(* group) and a program counter.                                           *)
(*                                                                         *)
(* Floating-point values are modelled as exact extended rationals <<n, d>>:*)
(* d > 0 and gcd(n, d) = 1 for a finite value, <<1, 0>> and <<-1, 0>> for  *)
(* +inf and -inf, <<0, 0>> for NaN.  Rounding is not modelled.             *)
(***************************************************************************)
EXTENDS Integers, Sequences, FiniteSets, TLC

VARIABLES
    fn,                   \* the function being called
    pc,                   \* the statement the call is at
    grid,                 \* the TA file on disk: wavelengths, timepoints, intensities
    arg,                  \* the call's arguments
    wavelengths,          \* locals of plot_spectrum / plot_bleach
    timepoints,
    intensities,
    wls,
    times,
    signal,
    signal_max,
    curves,               \* the plt.plot calls made so far: <<x, y, label>>
    ylabel,
    ret,                  \* the value returned
    file,                 \* the pump log: a sequence of lines, each a sequence of characters
    lineno,               \* lines of the log consumed so far
    pump_values,
    percentage_deviation,
    percentile_95,
    percentile_5

vars == <<fn, pc, grid, arg, wavelengths, timepoints, intensities, wls, times,
          signal, signal_max, curves, ylabel, ret, file, lineno, pump_values,
          percentage_deviation, percentile_95, percentile_5>>

-----------------------------------------------------------------------------
(* Bounds of the model. *)

MaxW == 3

MaxT == 3

MaxTimes == 2

MaxLines == 3

-----------------------------------------------------------------------------
(* float64 arithmetic, as exact extended rationals. *)

Abs(x) == IF x < 0 THEN -x ELSE x

Sgn(x) == IF x < 0 THEN -1 ELSE IF x > 0 THEN 1 ELSE 0

RECURSIVE GCD(_, _)
GCD(a, b) == IF b = 0 THEN a ELSE GCD(b, a % b)

NaN == <<0, 0>>

Flt(n, d) ==
    IF d = 0 THEN <<Sgn(n), 0>>
    ELSE LET g == GCD(Abs(n), Abs(d))
         IN  <<Sgn(d) * (n \div g), Abs(d) \div g>>

F(n) == <<n, 1>>

IsNaN(a) == a = NaN

IsFinite(a) == a[2] # 0

FNeg(a) == <<-a[1], a[2]>>

FAdd(a, b) ==
    IF IsNaN(a) \/ IsNaN(b) THEN NaN
    ELSE IF IsFinite(a) /\ IsFinite(b) THEN Flt(a[1] * b[2] + b[1] * a[2], a[2] * b[2])
    ELSE IF ~IsFinite(a) /\ ~IsFinite(b) THEN (IF a = b THEN a ELSE NaN)
    ELSE IF IsFinite(a) THEN b ELSE a

FSub(a, b) == FAdd(a, FNeg(b))

FMul(a, b) ==
    IF IsNaN(a) \/ IsNaN(b) THEN NaN
    ELSE IF IsFinite(a) /\ IsFinite(b) THEN Flt(a[1] * b[1], a[2] * b[2])
    ELSE IF a[1] = 0 \/ b[1] = 0 THEN NaN
    ELSE <<Sgn(a[1]) * Sgn(b[1]), 0>>

FDiv(a, b) ==
    IF IsNaN(a) \/ IsNaN(b) THEN NaN
    ELSE IF ~IsFinite(b) THEN (IF IsFinite(a) THEN F(0) ELSE NaN)
    ELSE IF b[1] = 0 THEN (IF a[1] = 0 THEN NaN ELSE <<Sgn(a[1]), 0>>)
    ELSE IF ~IsFinite(a) THEN <<Sgn(a[1]) * Sgn(b[1]), 0>>
    ELSE Flt(a[1] * b[2], a[2] * b[1])

FLess(a, b) ==
    /\ ~IsNaN(a)
    /\ ~IsNaN(b)
    /\ IF ~IsFinite(a) /\ ~IsFinite(b) THEN a[1] < b[1]
       ELSE a[1] * b[2] < b[1] * a[2]

FAbs(a) == <<Abs(a[1]), a[2]>>

\* rounding down instead
IntTrunc_Floor(a) == a[1] \div a[2]

\* int(x): truncation toward zero.
IntTrunc(a) == Sgn(a[1]) * (Abs(a[1]) \div a[2])

-----------------------------------------------------------------------------
(* numpy reductions and slices.  Indices are Python's: the element at      *)
(* index i of a is a[i + 1] here.                                          *)

\* a[lo:hi]
Slice(a, lo, hi) == SubSeq(a, lo + 1, hi)

\* a[lo:]
SliceFrom(a, lo) == SubSeq(a, lo + 1, Len(a))

NaNIndices(a) == {i \in 1..Len(a) : IsNaN(a[i])}

Min(S) == CHOOSE x \in S : \A y \in S : x <= y

\* np.argmin(a): the first NaN if there is one, else the first minimum.
ArgMin(a) ==
    IF NaNIndices(a) # {} THEN Min(NaNIndices(a)) - 1
    ELSE Min({i \in 1..Len(a) : \A j \in 1..Len(a) : ~FLess(a[j], a[i])}) - 1

\* a.max(): NaN if there is one, else the maximum.
FMax(a) ==
    IF NaNIndices(a) # {} THEN NaN
    ELSE a[CHOOSE i \in 1..Len(a) : \A j \in 1..Len(a) : ~FLess(a[i], a[j])]

RECURSIVE FSum(_)
FSum(a) == IF a = <<>> THEN F(0) ELSE FAdd(a[1], FSum(Tail(a)))

\* a.mean(): NaN for an empty array.
FMean(a) == FDiv(FSum(a), F(Len(a)))

\* the difference taken without its absolute value
NearestIndex_Signed(axis, target) ==
    ArgMin([i \in 1..Len(axis) |-> FSub(axis[i], target)])

\* np.argmin(np.abs(axis - target))
NearestIndex(axis, target) ==
    ArgMin([i \in 1..Len(axis) |-> FAbs(FSub(axis[i], target))])

-----------------------------------------------------------------------------
(* The inputs. *)

Floats(S) == {F(v) : v \in S}

NoArg == [wls |-> <<>>, times |-> <<>>, normalise |-> FALSE, mOD |-> FALSE,
          from_max |-> FALSE, constant |-> 0]

NoGrid == [wavelengths |-> <<>>, timepoints |-> <<>>, intensities |-> <<>>]

Idle ==
    /\ wavelengths = <<>>
    /\ timepoints = <<>>
    /\ intensities = <<>>
    /\ wls = <<>>
    /\ times = <<>>
    /\ signal = <<>>
    /\ signal_max = -1
    /\ curves = <<>>
    /\ ylabel = ""
    /\ ret = <<>>
    /\ lineno = 0
    /\ pump_values = <<>>
    /\ percentage_deviation = <<>>
    /\ percentile_95 = <<>>
    /\ percentile_5 = <<>>

\* The grid of the specification's worked example.
ScenarioGrid ==
    [wavelengths |-> <<F(500), F(600), F(700)>>,
     timepoints  |-> <<F(0), F(1), F(2)>>,
     intensities |-> <<<<F(1), F(2), F(3)>>, <<F(4), F(5), F(6)>>, <<F(7), F(8), F(9)>>>>]

\* plot_bleach's defaults, but for wls.
BleachDefaults(w) ==
    [wls |-> w, times |-> <<>>, normalise |-> FALSE, mOD |-> FALSE,
     from_max |-> TRUE, constant |-> 0]

WlVals == {500, 600, 700}

WlTargets == {500, 550, 600, 700}

\* Grids for the wavelength window: every axis, one time row.
WindowGrids ==
    {ScenarioGrid} \cup
    UNION {{[wavelengths |-> ax, timepoints |-> <<F(0)>>, intensities |-> <<row>>] :
              ax \in [1..w -> Floats(WlVals)], row \in [1..w -> Floats({1, 2})]} :
           w \in 1..MaxW}

\* Grids for the kinetics: three columns, rows whose window means differ.
KinRows ==
    {<<F(-1), F(-1), F(1)>>, <<F(-1), F(1), F(-1)>>, <<F(1), F(1), F(-1)>>,
     <<F(2), F(0), F(-1)>>}

TimeAxes(t) ==
    {[i \in 1..t |-> F(i - 1)], [i \in 1..t |-> Flt(2 * i - 5, 2)]}

KinGrids ==
    UNION {{[wavelengths |-> <<F(500), F(600), F(700)>>, timepoints |-> tp,
             intensities |-> m] :
              tp \in TimeAxes(t), m \in [1..t -> KinRows]} :
           t \in 1..MaxT}

KinArgs ==
    {[wls |-> w, times |-> <<>>, normalise |-> n, mOD |-> m, from_max |-> f,
      constant |-> c] :
       w \in {<<F(500), F(700)>>, <<F(500), F(600)>>, <<F(600), F(700)>>},
       n \in BOOLEAN, m \in BOOLEAN, f \in BOOLEAN, c \in {-1, 0, 1}}

InitWindow ==
    /\ fn = "plot_bleach"
    /\ pc = "load"
    /\ grid \in WindowGrids
    /\ arg \in {BleachDefaults(<<a, b>>) : a \in Floats(WlTargets), b \in Floats(WlTargets)}
    /\ file = <<>>
    /\ Idle

InitBleach ==
    /\ fn = "plot_bleach"
    /\ pc = "load"
    /\ grid \in KinGrids
    /\ arg \in KinArgs
    /\ file = <<>>
    /\ Idle

-----------------------------------------------------------------------------
(* load_TA *)

LoadTA ==
    /\ wavelengths' = grid.wavelengths
    /\ timepoints' = grid.timepoints
    /\ intensities' = grid.intensities

-----------------------------------------------------------------------------
(* plot_bleach *)

UNCHANGED_pump == UNCHANGED <<file, lineno, pump_values, percentage_deviation,
                              percentile_95, percentile_5>>

\* wls = [np.argmin(np.abs(wavelengths - wl)) for wl in wls]
ResolveWls(axis, w) == [k \in 1..Len(w) |-> NearestIndex(axis, w[k])]

\* the window closed at hi
WindowMean_Inclusive(m, lo, hi) == [t \in 1..Len(m) |-> FMean(Slice(m[t], lo, hi + 1))]

\* the window running to the end of the row from an exact match at hi
WindowMean_ToEnd(m, lo, hi) ==
    [t \in 1..Len(m) |-> FMean(Slice(m[t], lo, IF hi = Len(m[t]) - 1 THEN hi + 1 ELSE hi))]

\* intensities[:, lo:hi].mean(axis=1)
WindowMean(m, lo, hi) == [t \in 1..Len(m) |-> FMean(Slice(m[t], lo, hi))]

\* the calibration factor -2.28, as -228/100
CalNum == -228

CalDen == 100

\* the constant subtracted in both branches
UnitTransform_Symmetric(s, mOD, constant) ==
    IF ~mOD
    THEN [t \in 1..Len(s) |-> FSub(FMul(Flt(CalNum, CalDen), s[t]), F(constant))]
    ELSE [t \in 1..Len(s) |-> FSub(s[t], F(constant))]

\* -2.28*signal + constant, or signal - constant
UnitTransform(s, mOD, constant) ==
    IF ~mOD
    THEN [t \in 1..Len(s) |-> FAdd(FMul(Flt(CalNum, CalDen), s[t]), F(constant))]
    ELSE [t \in 1..Len(s) |-> FSub(s[t], F(constant))]

\* the time axis cut but not re-zeroed
Rezero_NoShift(tp, k) == [j \in 1..(Len(tp) - k) |-> tp[k + j]]

\* timepoints[signal_max:] - timepoints[signal_max]
Rezero(tp, k) == [j \in 1..(Len(tp) - k) |-> FSub(tp[k + j], tp[k + 1])]

\* signal / signal.max()
NormaliseBy(s) == [t \in 1..Len(s) |-> FDiv(s[t], FMax(s))]

BLoad ==
    /\ fn = "plot_bleach" /\ pc = "load"
    /\ LoadTA
    /\ wls' = arg.wls
    /\ pc' = "resolve"
    /\ UNCHANGED <<fn, grid, arg, times, signal, signal_max, curves, ylabel, ret>>
    /\ UNCHANGED_pump

BResolve ==
    /\ fn = "plot_bleach" /\ pc = "resolve"
    /\ wls' = ResolveWls(wavelengths, wls)
    /\ pc' = "mean"
    /\ UNCHANGED <<fn, grid, arg, wavelengths, timepoints, intensities, times, signal,
                   signal_max, curves, ylabel, ret>>
    /\ UNCHANGED_pump

BMean ==
    /\ fn = "plot_bleach" /\ pc = "mean"
    /\ signal' = WindowMean(intensities, wls[1], wls[2])
    /\ pc' = "argmin"
    /\ UNCHANGED <<fn, grid, arg, wavelengths, timepoints, intensities, wls, times,
                   signal_max, curves, ylabel, ret>>
    /\ UNCHANGED_pump

BArgmin ==
    /\ fn = "plot_bleach" /\ pc = "argmin"
    /\ signal_max' = ArgMin(signal)
    /\ pc' = "transform"
    /\ UNCHANGED <<fn, grid, arg, wavelengths, timepoints, intensities, wls, times,
                   signal, curves, ylabel, ret>>
    /\ UNCHANGED_pump

BTransform ==
    /\ fn = "plot_bleach" /\ pc = "transform"
    /\ signal' = UnitTransform(signal, arg.mOD, arg.constant)
    /\ pc' = "truncate"
    /\ UNCHANGED <<fn, grid, arg, wavelengths, timepoints, intensities, wls, times,
                   signal_max, curves, ylabel, ret>>
    /\ UNCHANGED_pump

BTruncate ==
    /\ fn = "plot_bleach" /\ pc = "truncate"
    /\ timepoints' = IF arg.from_max THEN Rezero(timepoints, signal_max) ELSE timepoints
    /\ signal' = IF arg.from_max THEN SliceFrom(signal, signal_max) ELSE signal
    /\ pc' = "normalise"
    /\ UNCHANGED <<fn, grid, arg, wavelengths, intensities, wls, times, signal_max,
                   curves, ylabel, ret>>
    /\ UNCHANGED_pump

BNormalise ==
    /\ fn = "plot_bleach" /\ pc = "normalise"
    /\ signal' = IF arg.normalise THEN NormaliseBy(signal) ELSE signal
    /\ pc' = "plot"
    /\ UNCHANGED <<fn, grid, arg, wavelengths, timepoints, intensities, wls, times,
                   signal_max, curves, ylabel, ret>>
    /\ UNCHANGED_pump

BReturn ==
    /\ fn = "plot_bleach" /\ pc = "plot"
    /\ curves' = Append(curves, <<timepoints, signal, "label">>)
    /\ ylabel' = IF arg.mOD THEN "$\\Delta$mOD" ELSE "${{\\Delta}}$ T/T"
    /\ ret' = <<timepoints, signal>>
    /\ pc' = "done"
    /\ UNCHANGED <<fn, grid, arg, wavelengths, timepoints, intensities, wls, times,
                   signal, signal_max>>
    /\ UNCHANGED_pump

NextBleach ==
    \/ BLoad
    \/ BResolve
    \/ BMean
    \/ BArgmin
    \/ BTransform
    \/ BTruncate
    \/ BNormalise
    \/ BReturn

SpecWindow == InitWindow /\ [][NextBleach]_vars

SpecBleach == InitBleach /\ [][NextBleach]_vars

-----------------------------------------------------------------------------
(* plot_spectrum *)

SpectrumGrids ==
    UNION {{[wavelengths |-> ax, timepoints |-> tp,
             intensities |-> [i \in 1..t |-> [j \in 1..Len(ax) |-> F(k * (10 * i + j))]]] :
              ax \in {<<F(500), F(600), F(700)>>, <<F(700), F(500)>>},
              tp \in [1..t -> {Flt(-3, 2), F(0), Flt(5, 2)}],
              k \in {1, -1}} :
           t \in 1..MaxT}

SpectrumArgs ==
    {[wls |-> w, times |-> ts, normalise |-> FALSE, mOD |-> m, from_max |-> FALSE,
      constant |-> 0] :
       w \in {<<F(550), F(800)>>},
       ts \in UNION {[1..n -> {F(1), Flt(-3, 4), Flt(5, 2)}] : n \in 0..MaxTimes},
       m \in BOOLEAN}

InitSpectrum ==
    /\ fn = "plot_spectrum"
    /\ pc = "load"
    /\ grid \in SpectrumGrids
    /\ arg \in SpectrumArgs
    /\ file = <<>>
    /\ Idle

\* times = [np.argmin(np.abs(timepoints - time)) for time in times]
ResolveTimes(axis, ts) == [k \in 1..Len(ts) |-> NearestIndex(axis, ts[k])]

\* label = int(timepoints[i])
CurveLabel(tp, i) == IntTrunc(tp[i + 1])

SLoad ==
    /\ fn = "plot_spectrum" /\ pc = "load"
    /\ LoadTA
    /\ wls' = arg.wls
    /\ times' = arg.times
    /\ pc' = "resolve_wls"
    /\ UNCHANGED <<fn, grid, arg, signal, signal_max, curves, ylabel, ret>>
    /\ UNCHANGED_pump

SResolveWls ==
    /\ fn = "plot_spectrum" /\ pc = "resolve_wls"
    /\ wls' = ResolveWls(wavelengths, wls)
    /\ pc' = "resolve_times"
    /\ UNCHANGED <<fn, grid, arg, wavelengths, timepoints, intensities, times, signal,
                   signal_max, curves, ylabel, ret>>
    /\ UNCHANGED_pump

SResolveTimes ==
    /\ fn = "plot_spectrum" /\ pc = "resolve_times"
    /\ times' = ResolveTimes(timepoints, times)
    /\ pc' = "plot"
    /\ UNCHANGED <<fn, grid, arg, wavelengths, timepoints, intensities, wls, signal,
                   signal_max, curves, ylabel, ret>>
    /\ UNCHANGED_pump

\* one pass of "for i in times": the pass number is the number of curves drawn
SPlot ==
    /\ fn = "plot_spectrum" /\ pc = "plot"
    /\ Len(curves) < Len(times)
    /\ LET i == times[Len(curves) + 1]
       IN  curves' = Append(curves, <<Slice(wavelengths, wls[1], wls[2]),
                                      Slice(intensities[i + 1], wls[1], wls[2]),
                                      CurveLabel(timepoints, i)>>)
    /\ UNCHANGED <<fn, pc, grid, arg, wavelengths, timepoints, intensities, wls, times,
                   signal, signal_max, ylabel, ret>>
    /\ UNCHANGED_pump

SFinish ==
    /\ fn = "plot_spectrum" /\ pc = "plot"
    /\ Len(curves) = Len(times)
    /\ ylabel' = IF arg.mOD THEN "mOD" ELSE "${{\\Delta}}$ T/T"
    /\ pc' = "done"
    /\ UNCHANGED <<fn, grid, arg, wavelengths, timepoints, intensities, wls, times,
                   signal, signal_max, curves, ret>>
    /\ UNCHANGED_pump

NextSpectrum ==
    \/ SLoad
    \/ SResolveWls
    \/ SResolveTimes
    \/ SPlot
    \/ SFinish

SpecSpectrum == InitSpectrum /\ [][NextSpectrum]_vars

-----------------------------------------------------------------------------
(* extract_pump_values *)

\* The lines a log is made of here, each with what it says: whether it holds
\* a Pump=<digits>.<digits>e<exp> token, and the value of the first one.
LogLines ==
    <<[text |-> <<"P", "u", "m", "p", "=", "1", ".", "0", "e", "+", "0", "0">>,
       token |-> TRUE, value |-> F(1)],
      [text |-> <<"P", "u", "m", "p", "=", "2", ".", "0", "e", "+", "0", "0">>,
       token |-> TRUE, value |-> F(2)],
      [text |-> <<"n", "o", "i", "s", "e">>,
       token |-> FALSE, value |-> NaN],
      [text |-> <<"t", "=", "3", " ", "P", "u", "m", "p", "=", "2", ".", "5", "e", "-", "0", "1", " ", "x">>,
       token |-> TRUE, value |-> Flt(1, 4)],
      [text |-> <<"P", "u", "m", "p", "=", "1", "e", "+", "0", "0">>,
       token |-> FALSE, value |-> NaN],
      [text |-> <<"P", "u", "m", "p", "=", "0", "3", ".", "0", "e", "1", "P", "u", "m", "p", "=", "1", ".", "0", "e", "+", "0", "0">>,
       token |-> TRUE, value |-> F(30)],
      [text |-> <<"P", "u", "m", "p", "=", "0", ".", "0", "e", "+", "0", "0">>,
       token |-> TRUE, value |-> F(0)],
      [text |-> <<"p", "u", "m", "p", "=", "1", ".", "0", "e", "+", "0", "0">>,
       token |-> FALSE, value |-> NaN],
      [text |-> <<"P", "u", "m", "p", "=", "-", "1", ".", "0", "e", "+", "0", "0">>,
       token |-> FALSE, value |-> NaN]>>

LogTexts == {LogLines[i].text : i \in 1..Len(LogLines)}

InitPump ==
    /\ fn = "extract_pump_values"
    /\ pc = "read"
    /\ grid = NoGrid
    /\ arg = NoArg
    /\ file \in UNION {[1..n -> LogTexts] : n \in 0..MaxLines}
    /\ Idle

DigitChars == <<"0", "1", "2", "3", "4", "5", "6", "7", "8", "9">>

IsDigit(c) == \E i \in 1..Len(DigitChars) : DigitChars[i] = c

DigitVal(c) == (CHOOSE i \in 1..Len(DigitChars) : DigitChars[i] = c) - 1

\* the length of the run of digits of line from position p
RECURSIVE DigitRun(_, _)
DigitRun(line, p) ==
    IF p <= Len(line) /\ IsDigit(line[p]) THEN 1 + DigitRun(line, p + 1) ELSE 0

CharAt(line, p) == IF p \in 1..Len(line) THEN line[p] ELSE ""

\* Pump=(\d+\.\d+e[+-]?\d+) matched at position p: the end of the match, or 0
MatchEnd(line, p) ==
    LET q1 == p + 5
        n1 == DigitRun(line, q1)
        q2 == q1 + n1 + 1
        n2 == DigitRun(line, q2)
        q3 == q2 + n2 + 1
        q4 == IF CharAt(line, q3) \in {"+", "-"} THEN q3 + 1 ELSE q3
        n3 == DigitRun(line, q4)
    IN  IF /\ p + 4 <= Len(line)
           /\ SubSeq(line, p, p + 4) = <<"P", "u", "m", "p", "=">>
           /\ n1 >= 1
           /\ CharAt(line, q1 + n1) = "."
           /\ n2 >= 1
           /\ CharAt(line, q2 + n2) = "e"
           /\ n3 >= 1
        THEN q4 + n3 - 1
        ELSE 0

MatchStarts(line) == {p \in 1..Len(line) : MatchEnd(line, p) # 0}

\* re.search(...): group 1 of the leftmost match, or <<>> for None
ReSearch(line) ==
    IF MatchStarts(line) = {} THEN <<>>
    ELSE LET p == Min(MatchStarts(line))
         IN  SubSeq(line, p + 5, MatchEnd(line, p))

RECURSIVE DigitsVal(_)
DigitsVal(ds) ==
    IF ds = <<>> THEN 0
    ELSE 10 * DigitsVal(SubSeq(ds, 1, Len(ds) - 1)) + DigitVal(ds[Len(ds)])

RECURSIVE Pow10(_)
Pow10(n) == IF n = 0 THEN 1 ELSE 10 * Pow10(n - 1)

\* float(match.group(1))
ParseFloat(g) ==
    LET dot  == CHOOSE i \in 1..Len(g) : g[i] = "."
        e    == CHOOSE i \in 1..Len(g) : g[i] = "e"
        neg  == g[e + 1] = "-"
        x    == IF g[e + 1] \in {"+", "-"} THEN e + 2 ELSE e + 1
        mant == DigitsVal(SubSeq(g, 1, dot - 1) \o SubSeq(g, dot + 1, e - 1))
        frac == e - 1 - dot
        ex   == DigitsVal(SubSeq(g, x, Len(g)))
    IN  IF neg THEN Flt(mant, Pow10(frac) * Pow10(ex))
        ELSE Flt(mant * Pow10(ex), Pow10(frac))

\* the deviation taken as value minus mean
PercentageDeviation_Flipped(vals) ==
    [i \in 1..Len(vals) |->
        FMul(FDiv(FSub(vals[i], FMean(vals)), FMean(vals)), F(100))]

\* [((pump_values.mean() - value) / pump_values.mean()) * 100 for value in pump_values]
PercentageDeviation(vals) ==
    [i \in 1..Len(vals) |->
        FMul(FDiv(FSub(FMean(vals), vals[i]), FMean(vals)), F(100))]

\* the k-th smallest element of a (k from 1), a free of NaN
KthSmallest(a, k) ==
    a[CHOOSE i \in 1..Len(a) :
        /\ Cardinality({j \in 1..Len(a) : FLess(a[j], a[i])}) < k
        /\ k <= Cardinality({j \in 1..Len(a) : ~FLess(a[i], a[j])})]

\* np.percentile(a, q) of a non-empty list, by linear interpolation
Percentile(a, q) ==
    IF NaNIndices(a) # {} THEN NaN
    ELSE LET pos  == q * (Len(a) - 1)
             lo   == pos \div 100
             frac == Flt(pos % 100, 100)
             hi   == IF lo + 2 <= Len(a) THEN lo + 2 ELSE Len(a)
             below == KthSmallest(a, lo + 1)
             above == KthSmallest(a, hi)
         IN  IF below = above THEN below
             ELSE FAdd(below, FMul(FSub(above, below), frac))

PQ95 == 95

PQ5 == 5

\* What np.percentile makes of an empty list is numpy's choice, version by
\* version: a NaN (with a warning), or an exception.
EmptyPercentile == {"nan", "raise"}

UNCHANGED_ta == UNCHANGED <<grid, arg, wavelengths, timepoints, intensities, wls, times,
                            signal, signal_max, ylabel, ret>>

PReadLine ==
    /\ fn = "extract_pump_values" /\ pc = "read"
    /\ lineno < Len(file)
    /\ lineno' = lineno + 1
    /\ LET match == ReSearch(file[lineno + 1])
       IN  pump_values' = IF match # <<>> THEN Append(pump_values, ParseFloat(match))
                          ELSE pump_values
    /\ UNCHANGED <<fn, pc, file, curves, percentage_deviation, percentile_95, percentile_5>>
    /\ UNCHANGED_ta

PScatter ==
    /\ fn = "extract_pump_values" /\ pc = "read"
    /\ lineno = Len(file)
    /\ curves' = [i \in 1..Len(pump_values) |-> <<i - 1, pump_values[i], "r.">>]
    /\ pc' = "deviation"
    /\ UNCHANGED <<fn, file, lineno, pump_values, percentage_deviation, percentile_95,
                   percentile_5>>
    /\ UNCHANGED_ta

PDeviation ==
    /\ fn = "extract_pump_values" /\ pc = "deviation"
    /\ percentage_deviation' = PercentageDeviation(pump_values)
    /\ pc' = "percentile"
    /\ UNCHANGED <<fn, file, lineno, pump_values, curves, percentile_95, percentile_5>>
    /\ UNCHANGED_ta

PPercentile ==
    /\ fn = "extract_pump_values" /\ pc = "percentile"
    /\ \E outcome \in EmptyPercentile :
          IF percentage_deviation # <<>>
          THEN /\ percentile_95' = Percentile(percentage_deviation, PQ95)
               /\ percentile_5' = Percentile(percentage_deviation, PQ5)
               /\ pc' = "hist"
          ELSE IF outcome = "nan"
          THEN /\ percentile_95' = NaN
               /\ percentile_5' = NaN
               /\ pc' = "hist"
          ELSE /\ UNCHANGED <<percentile_95, percentile_5>>
               /\ pc' = "raised"
    /\ UNCHANGED <<fn, file, lineno, pump_values, curves, percentage_deviation>>
    /\ UNCHANGED_ta

PHist ==
    /\ fn = "extract_pump_values" /\ pc = "hist"
    /\ curves' = Append(curves, <<percentage_deviation, percentile_95, percentile_5>>)
    /\ pc' = "done"
    /\ UNCHANGED <<fn, file, lineno, pump_values, percentage_deviation, percentile_95,
                   percentile_5>>
    /\ UNCHANGED_ta

NextPump ==
    \/ PReadLine
    \/ PScatter
    \/ PDeviation
    \/ PPercentile
    \/ PHist

SpecPump == InitPump /\ [][NextPump]_vars

-----------------------------------------------------------------------------
(* Any call of the three functions. *)

Init == InitWindow \/ InitBleach \/ InitSpectrum \/ InitPump

Next == NextBleach \/ NextSpectrum \/ NextPump

Spec == Init /\ [][Next]_vars

-----------------------------------------------------------------------------
(* What the claims speak of, stated on the inputs (the grid on disk and    *)
(* the arguments), in integer arithmetic.                                  *)

\* |a - t| <= |b - t|, for finite a, b, t
DistLeq(a, b, t) ==
    Abs(a[1] * t[2] - t[1] * a[2]) * b[2] <= Abs(b[1] * t[2] - t[1] * b[2]) * a[2]

\* idx is the lowest index of axis at minimum distance from target
IsNearestFirst(axis, target, idx) ==
    /\ idx \in 0..(Len(axis) - 1)
    /\ \A j \in 1..Len(axis) : DistLeq(axis[idx + 1], axis[j], target)
    /\ \A j \in 1..idx : ~DistLeq(axis[j], axis[idx + 1], target)
    /\ (\E j \in 1..Len(axis) : axis[j] = target) => axis[idx + 1] = target

RECURSIVE SumNum(_, _)
SumNum(row, J) ==
    IF J = {} THEN 0
    ELSE LET j == CHOOSE x \in J : TRUE IN row[j][1] + SumNum(row, J \ {j})

\* v is the arithmetic mean of the integer-valued row over the columns lo <= j < hi
\* (of no column at all: NaN)
IsMeanOf(v, row, lo, hi) ==
    IF hi <= lo THEN v = NaN
    ELSE /\ v[2] > 0
         /\ v[1] * (hi - lo) = SumNum(row, (lo + 1)..hi) * v[2]

Rows == Len(grid.intensities)

Cols == Len(grid.wavelengths)

Averaged == fn = "plot_bleach" /\ pc \in {"argmin", "transform"}

WholeAxis ==
    /\ arg.wls[1] = grid.wavelengths[1]
    /\ arg.wls[2] = grid.wavelengths[Cols]

\* C2 as stated: when the window covers the whole axis, the signal before the unit
\* transform is, for every time row, the mean of that row over all columns.
C2_WholeAxisMeanOfAllColumns ==
    (Averaged /\ WholeAxis) =>
        \A t \in 1..Rows : IsMeanOf(signal[t], grid.intensities[t], 0, Cols)

\* C2 as amended: when the window covers the whole axis, the signal before the unit
\* transform is, for every time row, the mean of that row over the columns before the
\* first column that holds the last wavelength; the last column never contributes,
\* and the signal is NaN when there is no such column.
C2_WholeAxisMeanExcludesLast ==
    (Averaged /\ WholeAxis) =>
        /\ wls[1] = 0
        /\ wls[2] <= Cols - 1
        /\ grid.wavelengths[wls[2] + 1] = grid.wavelengths[Cols]
        /\ \A j \in 1..wls[2] : grid.wavelengths[j] # grid.wavelengths[Cols]
        /\ Len(signal) = Rows
        /\ \A t \in 1..Rows : IsMeanOf(signal[t], grid.intensities[t], 0, wls[2])

C2_Witness ==
    /\ Averaged /\ WholeAxis
    /\ Cols = 3
    /\ wls = <<0, 2>>
    /\ grid.intensities[1] = <<F(1), F(1), F(2)>>
    /\ signal = <<F(1)>>

\* C3: the signal before the unit transform is, for every time row, the mean of that
\* row over the columns lo <= j < hi, lo and hi being the nearest-match indices of
\* wls[0] and wls[1]; the column at hi does not contribute.
C3_MeanOverClosedOpenWindow ==
    Averaged =>
        /\ IsNearestFirst(grid.wavelengths, arg.wls[1], wls[1])
        /\ IsNearestFirst(grid.wavelengths, arg.wls[2], wls[2])
        /\ Len(signal) = Rows
        /\ \A t \in 1..Rows : IsMeanOf(signal[t], grid.intensities[t], wls[1], wls[2])

C3_Witness ==
    /\ Averaged
    /\ grid = ScenarioGrid
    /\ arg.wls = <<F(500), F(700)>>
    /\ wls = <<0, 2>>
    /\ signal = <<Flt(3, 2), Flt(9, 2), Flt(15, 2)>>

-----------------------------------------------------------------------------
(* The kinetic trace, stated on the inputs. *)

WinCols == (wls[1] + 1)..wls[2]

WinSum(t) == SumNum(grid.intensities[t], WinCols)

WinN == Cardinality(WinCols)

\* the mean of row t over the window
Raw(t) == IF WinN = 0 THEN NaN ELSE Flt(WinSum(t), WinN)

\* -2.28 * Raw(t) + constant, or Raw(t) - constant
Xf(t) ==
    IF WinN = 0 THEN NaN
    ELSE IF ~arg.mOD
         THEN Flt(CalNum * WinSum(t) + arg.constant * CalDen * WinN, CalDen * WinN)
         ELSE Flt(WinSum(t) - arg.constant * WinN, WinN)

\* the averaged signal has its only minimum at (Python) index k
UniqueMinAt(k) ==
    /\ k \in 0..(Rows - 1)
    /\ \A j \in 1..Rows : j # k + 1 => FLess(Raw(k + 1), Raw(j))

\* the rows kept by the truncation
Kept == IF arg.from_max THEN (signal_max + 1)..Rows ELSE 1..Rows

\* m is the largest transformed value among the kept rows
IsKeptMax(m) ==
    /\ \E t \in Kept : Xf(t) = m
    /\ \A t \in Kept : ~FLess(m, Xf(t))

Returned == fn = "plot_bleach" /\ pc = "done"

\* C4: with from_max and a unique minimum of the averaged signal at index k, both
\* returned rows have length T - k, returned timepoints[j] = t[k+j] - t[k] (so
\* timepoints[0] = 0) and returned signal[j] comes from row k+j.
C4_TruncatedFromMinimum ==
    (Returned /\ arg.from_max) =>
        \A k \in 0..(Rows - 1) :
            UniqueMinAt(k) =>
                /\ Len(ret[1]) = Rows - k
                /\ Len(ret[2]) = Rows - k
                /\ ret[1][1] = F(0)
                /\ \A j \in 0..(Rows - k - 1) :
                      /\ ret[1][j + 1][2] > 0
                      /\ LET a == grid.timepoints[k + j + 1]
                             b == grid.timepoints[k + 1]
                         IN  ret[1][j + 1][1] * a[2] * b[2] =
                                 (a[1] * b[2] - b[1] * a[2]) * ret[1][j + 1][2]
                      /\ IF arg.normalise
                         THEN \E m \in {Xf(t) : t \in Kept} :
                                  /\ IsKeptMax(m)
                                  /\ ret[2][j + 1] = FDiv(Xf(k + j + 1), m)
                         ELSE ret[2][j + 1] = Xf(k + j + 1)

C4_Witness ==
    /\ Returned /\ arg.from_max /\ ~arg.normalise
    /\ Rows = 3
    /\ UniqueMinAt(1)
    /\ grid.timepoints = <<Flt(-3, 2), Flt(-1, 2), Flt(1, 2)>>
    /\ ret[1] = <<F(0), F(1)>>
    /\ Len(ret[2]) = 2

\* C5 as stated: with normalise, the maximum of the returned signal row is 1 unless
\* the maximum after the unit transform and the truncation is zero.
C5_NormalisedMaxIsOne ==
    (Returned /\ arg.normalise) =>
        \A m \in {Xf(t) : t \in Kept} :
            (IsKeptMax(m) /\ m # F(0)) => FMax(ret[2]) = F(1)

\* C6: the unit transform gives -2.28*m + c without mOD and m - c with mOD, for
\* every time row, before any truncation or normalisation.
C6_UnitTransform ==
    (fn = "plot_bleach" /\ pc = "truncate") =>
        /\ Len(signal) = Rows
        /\ \A t \in 1..Rows :
              IF WinN = 0 THEN signal[t] = NaN
              ELSE /\ signal[t][2] > 0
                   /\ IF ~arg.mOD
                      THEN signal[t][1] * CalDen * WinN =
                               (CalNum * WinSum(t) + arg.constant * CalDen * WinN)
                                   * signal[t][2]
                      ELSE signal[t][1] * WinN =
                               (WinSum(t) - arg.constant * WinN) * signal[t][2]

C6_Witness ==
    /\ fn = "plot_bleach" /\ pc = "truncate"
    /\ ~arg.mOD /\ arg.constant = 1
    /\ Raw(1) = F(-1)
    /\ signal[1] = Flt(328, 100)

\* C10 as stated: with from_max, without mOD the first returned signal element is
\* the maximum of the returned row (exactly 1, and all others <= 1, with normalise
\* and a positive maximum); with mOD it is the minimum of the returned row.
C10_FirstIsExtremum ==
    (Returned /\ arg.from_max) =>
        /\ ~arg.mOD =>
              /\ \A j \in 1..Len(ret[2]) : ~FLess(ret[2][1], ret[2][j])
              /\ \A m \in {Xf(t) : t \in Kept} :
                    (arg.normalise /\ IsKeptMax(m) /\ FLess(F(0), m)) =>
                        /\ ret[2][1] = F(1)
                        /\ \A j \in 1..Len(ret[2]) : ~FLess(F(1), ret[2][j])
        /\ arg.mOD =>
              \A j \in 1..Len(ret[2]) : ~FLess(ret[2][j], ret[2][1])

-----------------------------------------------------------------------------
(* plot_spectrum's curves. *)

\* L is x truncated toward zero, for a finite x
IsTruncOf(L, x) ==
    /\ Abs(L) * x[2] <= Abs(x[1])
    /\ Abs(x[1]) < (Abs(L) + 1) * x[2]
    /\ (L > 0 => x[1] > 0)
    /\ (L < 0 => x[1] < 0)

Plotting == fn = "plot_spectrum" /\ pc \in {"plot", "done"}

\* C7 as stated: each curve is labelled with the integer truncation of the requested
\* time value, not with the timepoint of the matched row.
C7_LabelIsRequestedTime ==
    Plotting =>
        \A n \in 1..Len(curves) : IsTruncOf(curves[n][3], arg.times[n])

\* C7 as amended: each curve is labelled with the integer truncation of the timepoint
\* of the row matched to (and plotted for) the requested time value.
C7_LabelIsMatchedTime ==
    Plotting =>
        \A n \in 1..Len(curves) :
            /\ IsNearestFirst(grid.timepoints, arg.times[n], times[n])
            /\ IsTruncOf(curves[n][3], grid.timepoints[times[n] + 1])
            /\ curves[n][2] = Slice(grid.intensities[times[n] + 1], wls[1], wls[2])

C7_Witness ==
    /\ Plotting
    /\ Len(curves) = 2
    /\ arg.times = <<F(1), Flt(-3, 4)>>
    /\ grid.timepoints = <<Flt(-3, 2), F(0), Flt(5, 2)>>
    /\ times = <<1, 0>>
    /\ curves[1][3] = 0
    /\ curves[2][3] = -1

-----------------------------------------------------------------------------
(* Nearest-match resolution, wherever it is used. *)

WlsResolved ==
    \/ fn = "plot_bleach" /\ pc \notin {"load", "resolve"}
    \/ fn = "plot_spectrum" /\ pc \notin {"load", "resolve_wls"}

\* C1: a resolved index is one of minimum absolute difference to its target, holds
\* the target itself when the axis has it, and is the lowest index among ties; for
\* the wavelength bounds of plot_bleach and plot_spectrum and the times of
\* plot_spectrum.
C1_NearestMatch ==
    /\ WlsResolved =>
          \A k \in 1..Len(arg.wls) :
              IsNearestFirst(grid.wavelengths, arg.wls[k], wls[k])
    /\ Plotting =>
          /\ Len(times) = Len(arg.times)
          /\ \A n \in 1..Len(arg.times) :
                IsNearestFirst(grid.timepoints, arg.times[n], times[n])

\* a tie between the first two columns, and an exact match at the third
C1_Witness ==
    /\ WlsResolved
    /\ fn = "plot_bleach"
    /\ grid.wavelengths = <<F(600), F(500), F(700)>>
    /\ arg.wls = <<F(550), F(700)>>
    /\ wls = <<0, 2>>

-----------------------------------------------------------------------------
(* The pump samples. *)

Said(text) == LogLines[CHOOSE i \in 1..Len(LogLines) : LogLines[i].text = text]

\* the values of the lines of f that hold a token, in order
RECURSIVE Samples(_)
Samples(f) ==
    IF f = <<>> THEN <<>>
    ELSE IF Said(f[1]).token THEN <<Said(f[1]).value>> \o Samples(Tail(f))
    ELSE Samples(Tail(f))

RECURSIVE DenProduct(_)
DenProduct(vs) == IF vs = <<>> THEN 1 ELSE vs[1][2] * DenProduct(Tail(vs))

RECURSIVE NumSum(_, _)
NumSum(vs, D) == IF vs = <<>> THEN 0 ELSE vs[1][1] * (D \div vs[1][2]) + NumSum(Tail(vs), D)

\* d = (mean - v) / mean * 100 for the mean N / (D * n)
IsDeviationOf(d, v, N, D, n) ==
    IF N = 0 THEN d = NaN
    ELSE /\ d[2] > 0
         /\ d[1] * N * v[2] = (N * v[2] - v[1] * D * n) * 100 * d[2]
         /\ (v[1] * D * n > N * v[2]) => d[1] < 0

Deviated == fn = "extract_pump_values" /\ pc \notin {"read", "deviation"}

\* C8: one sample per line that holds a Pump= token, in file order, the other lines
\* adding nothing; deviation i is (mean - value_i) / mean * 100, negative for a value
\* above the mean.
C8_SamplesAndDeviations ==
    Deviated =>
        LET D == DenProduct(pump_values)
            N == NumSum(pump_values, D)
        IN  /\ lineno = Len(file)
            /\ pump_values = Samples(file)
            /\ Len(percentage_deviation) = Len(pump_values)
            /\ \A i \in 1..Len(pump_values) :
                  IsDeviationOf(percentage_deviation[i], pump_values[i], N, D,
                                Len(pump_values))

C8_Witness ==
    /\ Deviated
    /\ file = <<LogLines[1].text, LogLines[2].text, LogLines[3].text>>
    /\ pump_values = <<F(1), F(2)>>
    /\ percentage_deviation = <<Flt(100, 3), Flt(-100, 3)>>

====
